---- MODULE Spec2Model ----
(***************************************************************************)
(* Model of mysql-redis (src/index.js): the query proxy that sits between  *)
(* a caller, a mysql connection (primary store) and a redis client (cache  *)
(* store), in its two adapters MysqlRedis (completion callback) and        *)
(* MysqlRedisAsync (promise).                                              *)
(*                                                                         *)
(* JavaScript values are represented as follows.                           *)
(*   - an optional scalar (a property that may be undefined) is <<>> when  *)
(*     undefined and <<v>> when it has the value v;                        *)
(*   - text is a TLA+ string, built with \o as the code builds it with +;  *)
(*   - a mysql result is a record [kind, rows]: kind "null" is null, kind  *)
(*     "rows" is an array of row objects, each row being its single cell;  *)
(*   - metadata is a record [kind, key]: "undef" (undefined), "fields"     *)
(*     (mysql's field descriptors) or "marker" ([{cacheHit: key}]).        *)
(***************************************************************************)
EXTENDS Integers, Sequences, FiniteSets, TLC

\* ---------------------------------------------------------------- bounds
NumProcs == 2      \* invocation slots (Spec runs its caller in slot 1)
MaxCalls == 2      \* invocations a caller makes in one behaviour

Procs == 1..NumProcs

\* ------------------------------------------------------- program constants
HashTypes == [farmhash32 |-> 0, farmhash64 |-> 1, blake2b512 |-> 2, full |-> 3]

Caching == [CACHE |-> 0, SKIP |-> 1, REFRESH |-> 2]

defaultCacheOptions ==
    [expire    |-> 2629746,
     keyPrefix |-> "sql.",
     hashType  |-> HashTypes.farmhash32,
     caching   |-> Caching.CACHE]

\* ------------------------------------------------ JavaScript value helpers
Undefined == <<>>
Some(v) == <<v>>

\* JavaScript truthiness of an optional number / an optional string.
TruthyNum(x) == x # Undefined /\ x[1] # 0
TruthyStr(x) == x # Undefined /\ x[1] # ""

\* a || b on optional numbers and optional strings.
OrNum(a, b) == IF TruthyNum(a) THEN a ELSE b
OrStr(a, b) == IF TruthyStr(a) THEN a ELSE b

Digit == <<"0", "1", "2", "3", "4", "5", "6", "7", "8", "9">>

\* String(n) for a non-negative integer, as JSON.stringify prints a number.
RECURSIVE NumStr(_)
NumStr(n) == IF n < 10 THEN Digit[n + 1]
             ELSE NumStr(n \div 10) \o Digit[(n % 10) + 1]

\* JSON.stringify of an array of numbers (the bind parameters).
RECURSIVE JoinNums(_)
JoinNums(a) == IF a = <<>> THEN ""
               ELSE IF Len(a) = 1 THEN NumStr(a[1])
               ELSE NumStr(a[1]) \o "," \o JoinNums(Tail(a))

\* ------------------------------------------------------------ cache options
\* A cacheOptions / per-call options object: every property is optional.
EmptyOptions ==
    [expire |-> Undefined, keyPrefix |-> Undefined, hashType |-> Undefined,
     caching |-> Undefined, hash |-> Undefined]

\* JSON.stringify of an options object: the defined properties, in order.
OptionProps(o) ==
    (IF o.keyPrefix = Undefined THEN <<>>
     ELSE << "\"keyPrefix\":\"" \o o.keyPrefix[1] \o "\"" >>)
    \o (IF o.expire = Undefined THEN <<>>
        ELSE << "\"expire\":" \o NumStr(o.expire[1]) >>)
    \o (IF o.hashType = Undefined THEN <<>>
        ELSE << "\"hashType\":" \o NumStr(o.hashType[1]) >>)
    \o (IF o.caching = Undefined THEN <<>>
        ELSE << "\"caching\":" \o NumStr(o.caching[1]) >>)
    \o (IF o.hash = Undefined THEN <<>>
        ELSE << "\"hash\":\"" \o o.hash[1] \o "\"" >>)

RECURSIVE JoinStrs(_)
JoinStrs(a) == IF a = <<>> THEN ""
               ELSE IF Len(a) = 1 THEN a[1]
               ELSE a[1] \o "," \o JoinStrs(Tail(a))

StringifyOptions(o) == "{" \o JoinStrs(OptionProps(o)) \o "}"

\* An argument of query(): undefined, an array of bind parameters, an
\* options object, or a function (the completion handler).
ArgUndef == [t |-> "undef", arr |-> <<>>, obj |-> EmptyOptions]
ArgArr(a) == [t |-> "arr", arr |-> a, obj |-> EmptyOptions]
ArgObj(o) == [t |-> "obj", arr |-> <<>>, obj |-> o]
ArgFn == [t |-> "fn", arr |-> <<>>, obj |-> EmptyOptions]

ArgTruthy(x) == x.t # "undef"
IsArray(x) == x.t = "arr"

\* options && options.name: undefined unless options is an object that
\* has the property.
Prop(options, name) ==
    IF options.t = "obj" THEN options.obj[name] ELSE Undefined

\* sql + JSON.stringify(values): JSON.stringify gives undefined for
\* undefined and for a function, and + prints that as "undefined".
StringifyArg(x) ==
    CASE x.t = "arr" -> "[" \o JoinNums(x.arr) \o "]"
      [] x.t = "obj" -> StringifyOptions(x.obj)
      [] OTHER -> "undefined"

\* The constructor: each field of the instance's cacheOptions.
Constructor(cacheOptions) ==
    [expire    |-> OrNum(cacheOptions.expire,
                         Some(defaultCacheOptions.expire))[1],
     keyPrefix |-> OrStr(cacheOptions.keyPrefix,
                         Some(defaultCacheOptions.keyPrefix))[1],
     hashType  |-> OrNum(cacheOptions.hashType,
                         Some(defaultCacheOptions.hashType))[1],
     caching   |-> OrNum(cacheOptions.caching,
                         Some(defaultCacheOptions.caching))[1]]

\* --------------------------------------------------------------- hashing
\* farmhash.fingerprint32 / fingerprint64, read through Number.parseInt:
\* two different non-cryptographic fingerprints, under which distinct
\* payloads may collide (here: payloads of equal length).
fingerprint32(s) == 1000 + Len(s)
fingerprint64(s) == 1000000 + 7 * Len(s)

\* String64.toString64: a number written in base 64 over a printable
\* alphabet.
Alphabet64 ==
    << "0", "1", "2", "3", "4", "5", "6", "7", "8", "9",
       "A", "B", "C", "D", "E", "F", "G", "H", "I", "J", "K", "L", "M",
       "N", "O", "P", "Q", "R", "S", "T", "U", "V", "W", "X", "Y", "Z",
       "a", "b", "c", "d", "e", "f", "g", "h", "i", "j", "k", "l", "m",
       "n", "o", "p", "q", "r", "s", "t", "u", "v", "w", "x", "y", "z",
       "$", "_" >>

RECURSIVE toString64(_)
toString64(n) == IF n < 64 THEN Alphabet64[n + 1]
                 ELSE toString64(n \div 64) \o Alphabet64[(n % 64) + 1]

\* crypto.createHash("blake2b512").update(sql).digest("base64"): a
\* collision-resistant digest, one text per payload.
blake2b512(s) == "blake2b512<" \o s \o ">=="

hash(sql, hashType) ==
    CASE hashType = HashTypes.blake2b512 -> blake2b512(sql)
      [] hashType = HashTypes.full -> sql
      [] hashType = HashTypes.farmhash64 -> toString64(fingerprint32(sql))
      [] OTHER -> toString64(fingerprint64(sql))

\* ------------------------------------------------------- results and JSON
\* A cell of a row: a number, a string, or a Date (DATETIME column), the
\* latter carrying its ISO text.
NumCell(n) == [kind |-> "num", n |-> n, s |-> ""]
StrCell(s) == [kind |-> "str", n |-> 0, s |-> s]
DateCell(s) == [kind |-> "date", n |-> 0, s |-> s]

Null == [kind |-> "null", rows |-> <<>>]
Rows(cells) == [kind |-> "rows", rows |-> cells]

\* Truthiness of a result: null is falsy, every array is truthy.
ResultTruthy(r) == r.kind # "null"

\* Metadata: undefined, mysql's field descriptors, or [{cacheHit: key}].
NoFields == [kind |-> "undef", key |-> ""]
MysqlFields == [kind |-> "fields", key |-> ""]
CacheHit(key) == [kind |-> "marker", key |-> key]

FieldsTruthy(f) == f.kind # "undef"

IsoDate == "2020-01-01T00:00:00.000Z"

\* The results the primary store may answer with.
MysqlResults ==
    { Null, Rows(<<>>), Rows(<<NumCell(3)>>), Rows(<<DateCell(IsoDate)>>) }

\* JSON.stringify: a Date is written through toJSON as a quoted string.
CellText(c) == IF c.kind = "num" THEN NumStr(c.n) ELSE "\"" \o c.s \o "\""

RowText(c) == "{\"1+2\":" \o CellText(c) \o "}"

JSONstringify(r) ==
    IF r.kind = "null" THEN "null"
    ELSE "[" \o JoinStrs([i \in 1..Len(r.rows) |-> RowText(r.rows[i])]) \o "]"

\* What JSON text can denote: a quoted string is a string, never a Date.
AsJSON(r) ==
    [r EXCEPT !.rows = [i \in 1..Len(r.rows) |->
        IF r.rows[i].kind = "date" THEN StrCell(r.rows[i].s) ELSE r.rows[i]]]

JSONValues == { AsJSON(r) : r \in MysqlResults }

\* JSON.parse of a text: the JSON value that text denotes.
JSONparse(text) == CHOOSE v \in JSONValues : JSONstringify(v) = text

\* JSON.parse of a redis reply: null is coerced to "null" and parses to null.
ParseReply(value) == IF value = Undefined THEN Null ELSE JSONparse(value[1])

\* ------------------------------------------------------------ invocations
\* A call: which adapter is called, in which form, with which arguments.
\* The forms are query(sql), query(sql, values), query(sql, options) and
\* query(sql, values, options); the callback adapter takes the completion
\* handler as one more, last argument.
Forms == {"sql", "sql_values", "sql_options", "sql_values_options"}

\* The arguments as the callback adapter's query(sql, values, _options, _cb)
\* receives them.
CbArgs(call) ==
    CASE call.form = "sql" ->
           [values |-> ArgFn, options |-> ArgUndef, cb |-> ArgUndef]
      [] call.form = "sql_values" ->
           [values |-> ArgArr(call.values), options |-> ArgFn, cb |-> ArgUndef]
      [] call.form = "sql_options" ->
           [values |-> ArgObj(call.options), options |-> ArgFn, cb |-> ArgUndef]
      [] OTHER ->
           [values |-> ArgArr(call.values), options |-> ArgObj(call.options),
            cb |-> ArgFn]

\* The arguments as the promise adapter's query(sql, values, options)
\* receives them.
AsyncArgs(call) ==
    CASE call.form = "sql" ->
           [values |-> ArgUndef, options |-> ArgUndef]
      [] call.form = "sql_values" ->
           [values |-> ArgArr(call.values), options |-> ArgUndef]
      [] call.form = "sql_options" ->
           [values |-> ArgObj(call.options), options |-> ArgUndef]
      [] OTHER ->
           [values |-> ArgArr(call.values), options |-> ArgObj(call.options)]

\* const options = _cb ? _options : !Array.isArray(values) ? values : {}
CbOptions(a) ==
    IF ArgTruthy(a.cb) THEN a.options
    ELSE IF ~IsArray(a.values) THEN a.values ELSE ArgObj(EmptyOptions)

\* options = options || (!Array.isArray(values) ? values : null)
AsyncOptions(a) ==
    IF ArgTruthy(a.options) THEN a.options
    ELSE IF ~IsArray(a.values) THEN a.values ELSE ArgUndef

\* External operations, as logged per invocation.
QueryOp(sql, values) ==
    [op |-> "query", sql |-> sql, values |-> values,
     key |-> "", value |-> "", expire |-> 0]
GetOp(key) ==
    [op |-> "get", sql |-> "", values |-> <<>>,
     key |-> key, value |-> "", expire |-> 0]
SetOp(key, value, expire) ==
    [op |-> "set", sql |-> "", values |-> <<>>,
     key |-> key, value |-> value, expire |-> expire]

Pending == [status |-> "pending", result |-> Null, fields |-> NoFields]

IdleRec ==
    [pc |-> "idle", adapter |-> "cb",
     call |-> [form |-> "sql", sql |-> "", values |-> <<>>,
               options |-> EmptyOptions],
     options |-> ArgUndef, prefix |-> "", hashType |-> 0, key |-> "",
     caching |-> 0, mysql |-> Pending, ops |-> <<>>, replies |-> <<>>, out |-> <<>>]

\* Variant of Invoke: the cache is read before the primary store is
\* queried.
InvokeCacheFirst(adapter, call, values, options, this) ==
    LET _s == call.sql \o StringifyArg(values)
        prefix == OrStr(Prop(options, "keyPrefix"), Some(this.keyPrefix))[1]
        hashType == OrNum(Prop(options, "hashType"), Some(this.hashType))[1]
        key == prefix \o OrStr(Prop(options, "hash"),
                               Some(hash(_s, hashType)))[1]
        caching == OrNum(Prop(options, "caching"), Some(this.caching))[1]
    IN  [pc |-> "mysql", adapter |-> adapter, call |-> call,
         options |-> options, prefix |-> prefix, hashType |-> hashType,
         key |-> key, caching |-> caching, mysql |-> Pending,
         ops |-> << GetOp(key),
                    QueryOp(call.sql,
                            IF IsArray(values) THEN values.arr ELSE <<>>) >>,
         replies |-> <<>>, out |-> <<>>]

\* The key, the caching mode and the first external operation of a call:
\* the part of query() that both adapters share, up to the switch.
Invoke(adapter, call, values, options, this) ==
    LET _s == call.sql \o StringifyArg(values)
        prefix == OrStr(Prop(options, "keyPrefix"), Some(this.keyPrefix))[1]
        hashType == OrNum(Prop(options, "hashType"), Some(this.hashType))[1]
        key == prefix \o OrStr(Prop(options, "hash"),
                               Some(hash(_s, hashType)))[1]
        caching == OrNum(Prop(options, "caching"), Some(this.caching))[1]
    IN  [pc |-> "mysql", adapter |-> adapter, call |-> call,
         options |-> options, prefix |-> prefix, hashType |-> hashType,
         key |-> key, caching |-> caching, mysql |-> Pending,
         ops |-> << QueryOp(call.sql,
                            IF IsArray(values) THEN values.arr ELSE <<>>) >>,
         replies |-> <<>>, out |-> <<>>]

MysqlRedisQuery(call, this) ==
    LET a == CbArgs(call)
    IN  Invoke("cb", call, a.values, CbOptions(a), this)

MysqlRedisAsyncQuery(call, this) ==
    LET a == AsyncArgs(call)
    IN  Invoke("async", call, a.values, AsyncOptions(a), this)

\* Variant of Expire: the per-call expire is ignored.
ExpireOfInstance(rec, this) == this.expire

\* (options && options.expire) || this.cacheOptions.expire
Expire(rec, this) == OrNum(Prop(rec.options, "expire"), Some(this.expire))[1]

\* cb(err, data, fields) / resolve([data, fields]) / reject(err)
Deliver(rec, via, err, data, fields) ==
    [rec EXCEPT !.out = Append(@, [via |-> via, err |-> err,
                                   data |-> data, fields |-> fields])]

Issue(rec, op, pc) == [rec EXCEPT !.ops = Append(@, op), !.pc = pc]

Finish(rec) == [rec EXCEPT !.pc = "done"]

\* Variant of IssueSet: the text written is that of null, whatever the
\* primary store returned.
IssueSetNull(rec, this) ==
    Issue(rec, SetOp(rec.key, JSONstringify(Null), Expire(rec, this)), "set")

\* redisClient.set(key, JSON.stringify(mysqlResult), "EX", expire, ...)
IssueSet(rec, this) ==
    Issue(rec, SetOp(rec.key, JSONstringify(rec.mysql.result),
                     Expire(rec, this)), "set")

\* ------------------------------------------------ the callback adapter
IsSkip(rec) == rec.caching = Caching.SKIP
IsRefresh(rec) == rec.caching = Caching.REFRESH

\* Variant of CbOnMysql: the primary result is delivered with the
\* cacheHit marker in place of the field metadata.
CbOnMysqlMarked(rec, o, this) ==
    LET r == [rec EXCEPT !.mysql = o]
        failed == Finish(Deliver(r, "cb", "mysqlErr", Null, NoFields))
        served == Deliver(r, "cb", "null", o.result, CacheHit(r.key))
    IN  IF IsSkip(rec) THEN
            IF o.status = "err" THEN failed ELSE Finish(served)
        ELSE IF IsRefresh(rec) THEN
            IF o.status = "err" THEN failed ELSE IssueSet(served, this)
        ELSE
            IF o.status = "err" THEN Issue(r, GetOp(r.key), "get")
            ELSE IssueSet(served, this)

\* The handler MysqlRedis.query passes to mysqlConn.query.
CbOnMysql(rec, o, this) ==
    LET r == [rec EXCEPT !.mysql = o]
        failed == Finish(Deliver(r, "cb", "mysqlErr", Null, NoFields))
        served == Deliver(r, "cb", "null", o.result, o.fields)
    IN  IF IsSkip(rec) THEN
            IF o.status = "err" THEN failed ELSE Finish(served)
        ELSE IF IsRefresh(rec) THEN
            IF o.status = "err" THEN failed ELSE IssueSet(served, this)
        ELSE
            IF o.status = "err" THEN Issue(r, GetOp(r.key), "get")
            ELSE IssueSet(served, this)

\* Variant of CbOnGet: every successful reply is taken for a miss.
CbOnGetMiss(rec, reply) ==
    LET r == [rec EXCEPT !.replies = Append(@, reply)]
    IN  IF ~reply.ok THEN
            Finish(Deliver(r, "cb", "getErr", Null, CacheHit(r.key)))
        ELSE
            Finish(Deliver(r, "cb", "null", Null, CacheHit(r.key)))

\* Variant of CbOnGet: on a miss the completion handler is not called.
CbOnGetSilentMiss(rec, reply) ==
    LET r == [rec EXCEPT !.replies = Append(@, reply)]
    IN  IF ~reply.ok THEN
            Finish(Deliver(r, "cb", "getErr", Null, CacheHit(r.key)))
        ELSE IF reply.value = Undefined THEN
            Finish(r)
        ELSE
            Finish(Deliver(r, "cb", "null", JSONparse(reply.value[1]),
                           CacheHit(r.key)))

\* The handler MysqlRedis.query passes to redisClient.get (CACHE mode).
CbOnGet(rec, reply) ==
    LET r == [rec EXCEPT !.replies = Append(@, reply)]
    IN  IF ~reply.ok THEN
            Finish(Deliver(r, "cb", "getErr", Null, CacheHit(r.key)))
        ELSE IF reply.value = Undefined THEN
            Finish(Deliver(r, "cb", "null", Null, CacheHit(r.key)))
        ELSE
            Finish(Deliver(r, "cb", "null", JSONparse(reply.value[1]),
                           CacheHit(r.key)))

\* Variant of CbOnSet: the outcome of the write is reported to the caller.
CbOnSetReports(rec, reply) ==
    LET r == [rec EXCEPT !.replies = Append(@, reply)]
    IN  Finish(Deliver(r, "cb", IF reply.ok THEN "null" ELSE "setErr",
                       r.mysql.result, r.mysql.fields))

\* The handler MysqlRedis.query passes to redisClient.set: (err, res) => {}
CbOnSet(rec, reply) == Finish([rec EXCEPT !.replies = Append(@, reply)])

\* -------------------------------------------------- the promise adapter
\* Variant of AsyncOnMysql: the SKIP case is missing, so that SKIP runs
\* the REFRESH case.
AsyncOnMysqlNoSkip(rec, o, this) ==
    LET r == [rec EXCEPT !.mysql = o]
        failed == Finish(Deliver(r, "reject", "mysqlErr", Null, NoFields))
    IN  IF IsSkip(rec) \/ IsRefresh(rec) THEN
            IF o.status = "err" THEN failed ELSE IssueSet(r, this)
        ELSE
            IF o.status = "err" THEN Issue(r, GetOp(r.key), "get_catch")
            ELSE IF ~(ResultTruthy(o.result) /\ FieldsTruthy(o.fields))
                 THEN Issue(r, GetOp(r.key), "get_inner")
            ELSE IssueSet(r, this)

\* Variant of AsyncOnMysql: REFRESH writes the cache also when the primary
\* query failed.
AsyncOnMysqlWritesOnError(rec, o, this) ==
    LET r == [rec EXCEPT !.mysql = o]
        failed == Finish(Deliver(r, "reject", "mysqlErr", Null, NoFields))
    IN  IF IsSkip(rec) THEN
            IF o.status = "err" THEN failed
            ELSE Finish(Deliver(r, "resolve", "null", o.result, o.fields))
        ELSE IF IsRefresh(rec) THEN
            IssueSet(r, this)
        ELSE
            IF o.status = "err" THEN Issue(r, GetOp(r.key), "get_catch")
            ELSE IF ~(ResultTruthy(o.result) /\ FieldsTruthy(o.fields))
                 THEN Issue(r, GetOp(r.key), "get_inner")
            ELSE IssueSet(r, this)

\* MysqlRedisAsync.query after await this.mysqlConn.query(...).
AsyncOnMysql(rec, o, this) ==
    LET r == [rec EXCEPT !.mysql = o]
        failed == Finish(Deliver(r, "reject", "mysqlErr", Null, NoFields))
    IN  IF IsSkip(rec) THEN
            IF o.status = "err" THEN failed
            ELSE Finish(Deliver(r, "resolve", "null", o.result, o.fields))
        ELSE IF IsRefresh(rec) THEN
            IF o.status = "err" THEN failed ELSE IssueSet(r, this)
        ELSE
            IF o.status = "err" THEN Issue(r, GetOp(r.key), "get_catch")
            ELSE IF ~(ResultTruthy(o.result) /\ FieldsTruthy(o.fields))
                 THEN Issue(r, GetOp(r.key), "get_inner")
            ELSE IssueSet(r, this)

\* Variant of AsyncSettleGet: the cached value is resolved without the
\* marker.
AsyncSettleGetNoMarker(r, reply) ==
    IF reply.ok
    THEN Deliver(r, "resolve", "null", ParseReply(reply.value), NoFields)
    ELSE Deliver(r, "reject", "getErr", Null, NoFields)

\* resolve([JSON.parse(redisResult), [{cacheHit: key}]]) / reject(redisErr)
AsyncSettleGet(r, reply) ==
    IF reply.ok
    THEN Deliver(r, "resolve", "null", ParseReply(reply.value), CacheHit(r.key))
    ELSE Deliver(r, "reject", "getErr", Null, NoFields)

\* CACHE mode, after the await of the get inside the inner try: the
\* promise is settled and control falls through to the set.
AsyncOnGetInner(rec, reply, this) ==
    IssueSet(AsyncSettleGet([rec EXCEPT !.replies = Append(@, reply)], reply),
             this)

\* After await this.redisClient.set(...): REFRESH and CACHE mode.
AsyncOnSet(rec, reply) ==
    LET r == [rec EXCEPT !.replies = Append(@, reply)]
        served == Finish(Deliver(r, "resolve", "null",
                                 r.mysql.result, r.mysql.fields))
    IN  IF reply.ok THEN served
        ELSE IF IsRefresh(rec)
             THEN Finish(Deliver(r, "reject", "setErr", Null, NoFields))
        ELSE Issue(r, GetOp(r.key), "get_catch")

\* CACHE mode, after the await of the get inside catch (mysqlErr).
AsyncOnGetCatch(rec, reply) ==
    Finish(AsyncSettleGet([rec EXCEPT !.replies = Append(@, reply)], reply))

\* ------------------------------------------------------------- dispatch
OnMysql(rec, o, this) ==
    IF rec.adapter = "cb" THEN CbOnMysql(rec, o, this)
    ELSE AsyncOnMysql(rec, o, this)

OnRedis(rec, reply, this) ==
    IF rec.adapter = "cb" THEN
        IF rec.pc = "get" THEN CbOnGet(rec, reply) ELSE CbOnSet(rec, reply)
    ELSE
        CASE rec.pc = "get_inner" -> AsyncOnGetInner(rec, reply, this)
          [] rec.pc = "get_catch" -> AsyncOnGetCatch(rec, reply)
          [] OTHER -> AsyncOnSet(rec, reply)

\* ---------------------------------------------------------------- inputs
Adapters == {"cb", "async"}

SqlSet == {"select 1+2", "select 2"}

Opt(name, v) == [EmptyOptions EXCEPT ![name] = Some(v)]

\* The cacheOptions the instances are constructed with.
InstanceOptions ==
    { EmptyOptions,
      Opt("hashType", HashTypes.full),
      [Opt("caching", Caching.REFRESH) EXCEPT !.expire = Some(60)],
      [Opt("caching", Caching.SKIP) EXCEPT !.keyPrefix = Some("i.")] }

\* The per-call options.
CallOptions ==
    { Opt("caching", Caching.CACHE), Opt("caching", Caching.SKIP),
      Opt("caching", Caching.REFRESH), Opt("expire", 30),
      Opt("hashType", HashTypes.full), Opt("hashType", HashTypes.farmhash32),
      Opt("keyPrefix", "p."), Opt("hash", "k") }

Call(form, sql, values, options) ==
    [form |-> form, sql |-> sql, values |-> values, options |-> options]

Calls ==
    { Call("sql_values", sql, <<>>, EmptyOptions) : sql \in SqlSet }
    \cup { Call("sql_values", "select 1+?+?", <<2, 3>>, EmptyOptions),
           Call("sql", "select 1+2", <<>>, EmptyOptions),
           Call("sql_options", "select 1+2", <<>>, Opt("expire", 30)) }
    \cup { Call("sql_values_options", "select 1+2", <<>>, o) :
             o \in CallOptions }

\* What the primary store may answer: an error, or a result with its
\* field metadata (undefined for a statement that returns no rows).
MysqlOutcomes ==
    { [status |-> "err", result |-> Null, fields |-> NoFields] }
    \cup { [status |-> "ok", result |-> r, fields |-> MysqlFields] :
             r \in MysqlResults }
    \cup { [status |-> "ok", result |-> Rows(<<>>), fields |-> NoFields] }

\* ----------------------------------------------------------------- state
VARIABLES
    cacheOptionsArg,  \* the cacheOptions argument of the constructors
    cacheOptions,     \* this.cacheOptions of both instances
    inv,              \* the invocation in each slot
    redis,            \* the cache store: key -> [value, expire, of]
    redisQueue,       \* commands sent to the redis client, in order
    budget            \* invocations the caller may still make

vars == <<cacheOptionsArg, cacheOptions, inv, redis, redisQueue, budget>>

NoEntries == [k \in {} |-> [value |-> "", expire |-> 0, of |-> Null]]

Init ==
    /\ cacheOptionsArg \in InstanceOptions
    /\ cacheOptions = Constructor(cacheOptionsArg)
    /\ inv = [p \in Procs |-> IdleRec]
    /\ redis = NoEntries
    /\ redisQueue = <<>>
    /\ budget = MaxCalls

InFlight(p) == inv[p].pc \notin {"idle", "done"}

\* The redis command an invocation has just issued, if any.
Sent(p, old, new) ==
    IF Len(new.ops) > Len(old.ops)
    THEN << [p |-> p, cmd |-> new.ops[Len(new.ops)], of |-> new.mysql.result] >>
    ELSE <<>>

\* The caller invokes query() on one of the two adapters, once its
\* previous invocation has completed.
Query(p, adapter, call) ==
    /\ budget > 0
    /\ \A q \in Procs : ~InFlight(q)
    /\ inv' = [inv EXCEPT ![p] =
                 IF adapter = "cb" THEN MysqlRedisQuery(call, cacheOptions)
                 ELSE MysqlRedisAsyncQuery(call, cacheOptions)]
    /\ budget' = budget - 1
    /\ UNCHANGED <<cacheOptionsArg, cacheOptions, redis, redisQueue>>

\* The primary store answers the query of invocation p.
MysqlReply(p, o) ==
    /\ inv[p].pc = "mysql"
    /\ LET new == OnMysql(inv[p], o, cacheOptions)
       IN  /\ inv' = [inv EXCEPT ![p] = new]
           /\ redisQueue' = redisQueue \o Sent(p, inv[p], new)
    /\ UNCHANGED <<cacheOptionsArg, cacheOptions, redis, budget>>

\* The cache store executes the oldest command and answers it; a command
\* that fails leaves the store as it was.
RedisReply(ok) ==
    /\ redisQueue # <<>>
    /\ LET c == Head(redisQueue)
           p == c.p
           k == c.cmd.key
           reply ==
               IF c.cmd.op = "get" /\ ok /\ k \in DOMAIN redis
               THEN [ok |-> ok, value |-> Some(redis[k].value), of |-> redis[k].of]
               ELSE [ok |-> ok, value |-> Undefined, of |-> Null]
           new == OnRedis(inv[p], reply, cacheOptions)
       IN  /\ redis' =
                 IF c.cmd.op = "set" /\ ok
                 THEN [x \in DOMAIN redis \cup {k} |->
                         IF x = k
                         THEN [value |-> c.cmd.value, expire |-> c.cmd.expire,
                               of |-> c.of]
                         ELSE redis[x]]
                 ELSE redis
           /\ inv' = [inv EXCEPT ![p] = new]
           /\ redisQueue' = Tail(redisQueue) \o Sent(p, inv[p], new)
    /\ UNCHANGED <<cacheOptionsArg, cacheOptions, budget>>

\* The lifetime of an entry runs out and the cache store drops it.
ExpireKey ==
    /\ \E k \in DOMAIN redis :
         redis' = [x \in DOMAIN redis \ {k} |-> redis[x]]
    /\ UNCHANGED <<cacheOptionsArg, cacheOptions, inv, redisQueue, budget>>

\* One caller, which makes its invocations one after the other in slot 1,
\* on either adapter; the stores answer, and entries expire, at any time.
Next ==
    \/ \E a \in Adapters, c \in Calls : Query(1, a, c)
    \/ \E o \in MysqlOutcomes : MysqlReply(1, o)
    \/ \E ok \in BOOLEAN : RedisReply(ok)
    \/ ExpireKey

Spec == Init /\ [][Next]_vars

\* ------------------------------------------- concurrent invocations
\* Calls of both modes that write the cache, all deriving one key.
SameKeyCalls ==
    { Call("sql_values", "select 1+2", <<>>, EmptyOptions),
      Call("sql_values_options", "select 1+2", <<>>,
           Opt("caching", Caching.REFRESH)) }

\* The answers of the primary store to concurrent queries of one
\* statement: a failure, rows, rows that hold a Date, or no field metadata.
SameKeyOutcomes ==
    { o \in MysqlOutcomes :
        o.status = "ok" =>
            \/ o.fields = NoFields
            \/ o.result \in {Rows(<<NumCell(3)>>), Rows(<<DateCell(IsoDate)>>)} }

\* An instance constructed with the default cacheOptions.
InitDefault ==
    /\ cacheOptionsArg = EmptyOptions
    /\ cacheOptions = Constructor(cacheOptionsArg)
    /\ inv = [p \in Procs |-> IdleRec]
    /\ redis = NoEntries
    /\ redisQueue = <<>>
    /\ budget = MaxCalls

\* A caller invokes query() while earlier invocations may be in flight;
\* the slots are taken in the order of invocation.
ConcurrentQuery(p, adapter, call) ==
    /\ inv[p].pc = "idle"
    /\ \A q \in Procs : q < p => inv[q].pc # "idle"
    /\ inv' = [inv EXCEPT ![p] =
                 IF adapter = "cb" THEN MysqlRedisQuery(call, cacheOptions)
                 ELSE MysqlRedisAsyncQuery(call, cacheOptions)]
    /\ UNCHANGED <<cacheOptionsArg, cacheOptions, redis, redisQueue, budget>>

NextConcurrent ==
    \/ \E p \in Procs, a \in Adapters, c \in SameKeyCalls :
          ConcurrentQuery(p, a, c)
    \/ \E p \in Procs, o \in SameKeyOutcomes : MysqlReply(p, o)
    \/ \E ok \in BOOLEAN : RedisReply(ok)
    \/ ExpireKey

SpecConcurrent == InitDefault /\ [][NextConcurrent]_vars

\* ------------------------------------------------ stores that answer
\* Calls of every mode, both of the modes above and SKIP.
ModeCalls ==
    SameKeyCalls
    \cup { Call("sql_values_options", "select 1+2", <<>>,
                Opt("caching", Caching.SKIP)) }

\* One caller, which makes calls of every mode one after the other.
NextModes ==
    \/ \E a \in Adapters, c \in ModeCalls : Query(1, a, c)
    \/ \E o \in MysqlOutcomes : MysqlReply(1, o)
    \/ \E ok \in BOOLEAN : RedisReply(ok)
    \/ ExpireKey

\* Every operation issued to a store eventually completes: the primary
\* store answers each pending query and the redis client each command.
StoresAnswer ==
    /\ \A p \in Procs : WF_vars(\E o \in MysqlOutcomes : MysqlReply(p, o))
    /\ WF_vars(\E ok \in BOOLEAN : RedisReply(ok))

SpecFair == InitDefault /\ [][NextModes]_vars /\ StoresAnswer

\* ------------------------------------------------------------ properties
Done(p) == inv[p].pc = "done"
Started(p) == inv[p].pc # "idle"

\* The branch of the switch an invocation runs.
CacheMode(rec) == ~IsSkip(rec) /\ ~IsRefresh(rec)

\* What the caller receives: the (first) completion of the invocation.
Outcome(rec) == [err |-> rec.out[1].err, data |-> rec.out[1].data,
                 fields |-> rec.out[1].fields]

\* The primary result, delivered without error.
Served(rec) == [err |-> "null", data |-> rec.mysql.result,
                fields |-> rec.mysql.fields]

\* The cache-store operations of an invocation, and their replies.
RedisOps(rec) == Tail(rec.ops)

Issued(rec, op) == \E i \in 1..Len(rec.ops) : rec.ops[i].op = op

SetFailed(rec) ==
    \E i \in 1..Len(rec.replies) :
        RedisOps(rec)[i].op = "set" /\ ~rec.replies[i].ok

\* The options object the caller supplied with the call, if any.
Supplied(call) ==
    IF call.form \in {"sql_options", "sql_values_options"}
    THEN call.options ELSE EmptyOptions

\* C1: when the primary query succeeds and the cache write of the
\* invocation fails, the caller still receives the primary result with no
\* error, in every mode and both adapters.
C1_WriteFailureNotSurfaced ==
    \A p \in Procs :
        (Done(p) /\ inv[p].mysql.status = "ok" /\ SetFailed(inv[p]))
            => Outcome(inv[p]) = Served(inv[p])

\* C2: in CACHE mode, an invocation made while the cache store holds a
\* value under its key does not query the primary store.
C2_CacheCheckedFirst ==
    [][\A p \in Procs :
        (inv[p].pc # "mysql" /\ inv'[p].pc = "mysql"
           /\ CacheMode(inv'[p]) /\ inv'[p].key \in DOMAIN redis)
            => ~Issued(inv'[p], "query")]_vars

\* The value a field resolves to: the per-call value when supplied, else
\* the value given to the constructor, else the system default.
Resolved(call, name) ==
    IF Supplied(call)[name] # Undefined THEN Supplied(call)[name][1]
    ELSE IF cacheOptionsArg[name] # Undefined THEN cacheOptionsArg[name][1]
    ELSE defaultCacheOptions[name]

\* C3: every invocation acts on the resolved value of each of the four
\* fields: the mode it runs, the prefix and hash type of its key, and the
\* expiry of every cache write it issues.
C3_OptionResolution ==
    \A p \in Procs :
        Started(p) =>
            /\ inv[p].caching = Resolved(inv[p].call, "caching")
            /\ inv[p].prefix = Resolved(inv[p].call, "keyPrefix")
            /\ inv[p].hashType = Resolved(inv[p].call, "hashType")
            /\ \A i \in 1..Len(inv[p].ops) :
                  inv[p].ops[i].op = "set"
                      => inv[p].ops[i].expire = Resolved(inv[p].call, "expire")

\* C4: in CACHE mode, when the primary query succeeds, the caller receives
\* exactly the primary rows and field metadata, and no cache read is issued.
C4_CachePrimaryResult ==
    \A p \in Procs :
        (Done(p) /\ CacheMode(inv[p]) /\ inv[p].mysql.status = "ok")
            => /\ Outcome(inv[p]) = Served(inv[p])
               /\ ~Issued(inv[p], "get")

\* The step by which the cache store answers the fallback read of a
\* CACHE-mode invocation whose primary query failed.
FallbackRead(p) ==
    /\ CacheMode(inv[p])
    /\ inv[p].mysql.status = "err"
    /\ inv[p].pc \in {"get", "get_catch"}
    /\ inv'[p].pc = "done"

LastReply(rec) == rec.replies[Len(rec.replies)]

\* C5: CACHE mode, primary fails, the cache read succeeds: the caller
\* receives no error, the deserialized value stored at the key (null when
\* the key is absent) and the marker [{cacheHit: key}] of the key read.
C5_FallbackServed ==
    [][\A p \in Procs :
        (FallbackRead(p) /\ LastReply(inv'[p]).ok)
            => /\ RedisOps(inv[p]) = << GetOp(inv[p].key) >>
               /\ Len(inv'[p].out) = 1
               /\ Outcome(inv'[p]) =
                    [err |-> "null",
                     data |-> IF inv[p].key \in DOMAIN redis
                              THEN JSONparse(redis[inv[p].key].value)
                              ELSE Null,
                     fields |-> CacheHit(inv[p].key)]]_vars

C5_Witness ==
    \E p \in Procs :
        /\ Done(p) /\ CacheMode(inv[p]) /\ inv[p].adapter = "async"
        /\ inv[p].mysql.status = "err"
        /\ LastReply(inv[p]).ok /\ LastReply(inv[p]).value # Undefined
        /\ Outcome(inv[p]).data = Rows(<<NumCell(3)>>)

\* C6: CACHE mode, primary fails and the cache read fails too: the caller
\* receives the cache read error, annotated with the marker.
C6_FallbackError ==
    [][\A p \in Procs :
        (FallbackRead(p) /\ ~LastReply(inv'[p]).ok)
            => Outcome(inv'[p]) =
                 [err |-> "getErr", data |-> Null,
                  fields |-> CacheHit(inv[p].key)]]_vars

\* C7: an invocation in SKIP mode issues no cache-store operation; a
\* primary failure reaches the caller unchanged and a primary success is
\* delivered as it is, with its field metadata.
C7_SkipBypassesCache ==
    \A p \in Procs :
        (Started(p) /\ IsSkip(inv[p]))
            => /\ inv[p].ops = << inv[p].ops[1] >>
               /\ inv[p].ops[1].op = "query"
               /\ Done(p) =>
                    /\ Len(inv[p].out) = 1
                    /\ Outcome(inv[p]) =
                         IF inv[p].mysql.status = "err"
                         THEN [err |-> "mysqlErr", data |-> Null,
                               fields |-> NoFields]
                         ELSE Served(inv[p])

C7_Witness ==
    \E p \in Procs :
        /\ Done(p) /\ IsSkip(inv[p]) /\ inv[p].adapter = "async"
        /\ inv[p].mysql.status = "ok"
        /\ Outcome(inv[p]).data = Rows(<<NumCell(3)>>)
        /\ inv[p].key \in DOMAIN redis

\* The expiry a write is to carry: the per-call expire when supplied,
\* else the instance's.
ResolvedExpire(call) ==
    IF Supplied(call).expire # Undefined THEN Supplied(call).expire[1]
    ELSE cacheOptions.expire

\* C8: an invocation in REFRESH mode never reads the cache; when the
\* primary query fails it delivers the primary error and issues no
\* cache-store operation; when it succeeds it issues exactly one write, at
\* the derived key, of the serialized result with the resolved expiry.
C8_Refresh ==
    \A p \in Procs :
        (Started(p) /\ IsRefresh(inv[p]))
            => /\ ~Issued(inv[p], "get")
               /\ Done(p) =>
                    IF inv[p].mysql.status = "err"
                    THEN /\ RedisOps(inv[p]) = <<>>
                         /\ Outcome(inv[p]).err = "mysqlErr"
                    ELSE RedisOps(inv[p]) =
                           << SetOp(inv[p].key,
                                    JSONstringify(inv[p].mysql.result),
                                    ResolvedExpire(inv[p].call)) >>

C8_Witness ==
    \E p \in Procs :
        /\ Done(p) /\ IsRefresh(inv[p]) /\ inv[p].adapter = "cb"
        /\ inv[p].mysql.status = "ok"
        /\ Len(RedisOps(inv[p])) = 1
        /\ RedisOps(inv[p])[1].expire = 30
        /\ cacheOptions.expire = 60

\* The fallback read of p is answered from an entry of the cache store:
\* the entry the last completed write to the key left there, whose field
\* "of" is the result R that write serialized.
FallbackHit(p) ==
    /\ FallbackRead(p)
    /\ LastReply(inv'[p]).ok
    /\ inv[p].key \in DOMAIN redis

StoredValues == {Undefined} \cup { Some(JSONstringify(r)) : r \in MysqlResults }

\* The outcomes of the cache store an invocation may meet: whether a read
\* and a write succeed, and what is stored under the key.
Scenarios == [get : BOOLEAN, set : BOOLEAN, stored : StoredValues]

\* The scenario agrees with the replies the invocation received.
Consistent(rec, sc) ==
    \A i \in 1..Len(rec.replies) :
        IF RedisOps(rec)[i].op = "get"
        THEN /\ sc.get = rec.replies[i].ok
             /\ rec.replies[i].ok => sc.stored = rec.replies[i].value
        ELSE sc.set = rec.replies[i].ok

\* The same call made on the other adapter.
TwinQuery(rec) ==
    IF rec.adapter = "cb" THEN MysqlRedisAsyncQuery(rec.call, cacheOptions)
    ELSE MysqlRedisQuery(rec.call, cacheOptions)

\* An invocation run to completion against the given store outcomes.
RECURSIVE Run(_, _, _)
Run(rec, o, sc) ==
    IF rec.pc = "done" THEN rec
    ELSE IF rec.pc = "mysql" THEN Run(OnMysql(rec, o, cacheOptions), o, sc)
    ELSE LET reply ==
                 IF rec.ops[Len(rec.ops)].op = "get"
                 THEN [ok |-> sc.get,
                       value |-> IF sc.get THEN sc.stored ELSE Undefined,
                       of |-> Null]
                 ELSE [ok |-> sc.set, value |-> Undefined, of |-> Null]
         IN  Run(OnRedis(rec, reply, cacheOptions), o, sc)

\* C9: the two adapters, given the same call and the same store outcomes,
\* issue the same operations and deliver the same outcome.
C9_AdaptersEquivalent ==
    \A p \in Procs :
        Done(p) =>
            \A sc \in Scenarios :
                Consistent(inv[p], sc) =>
                    LET twin == Run(TwinQuery(inv[p]), inv[p].mysql, sc)
                    IN  /\ twin.ops = inv[p].ops
                        /\ Outcome(twin) = Outcome(inv[p])

\* C11: the completion handler of an invocation of the callback adapter is
\* invoked at most once.
C11_HandlerAtMostOnce ==
    \A p \in Procs : inv[p].adapter = "cb" => Len(inv[p].out) <= 1

C11_Witness ==
    \E p \in Procs :
        /\ Done(p) /\ inv[p].adapter = "cb" /\ CacheMode(inv[p])
        /\ SetFailed(inv[p])
        /\ Len(inv[p].out) = 1

\* The same call with an empty list of bind parameters in place of the
\* absent one.
WithEmptyParams(call) ==
    [call EXCEPT !.values = <<>>,
                 !.form = IF call.form = "sql" THEN "sql_values"
                          ELSE "sql_values_options"]

\* The key the adapter of rec derives for a call.
KeyOf(rec, call) ==
    IF rec.adapter = "cb" THEN MysqlRedisQuery(call, cacheOptions).key
    ELSE MysqlRedisAsyncQuery(call, cacheOptions).key

\* C12: a call made without bind parameters derives the key of the same
\* call made with the empty parameter list [].
C12_AbsentParamsKey ==
    \A p \in Procs :
        (Started(p) /\ inv[p].call.form \in {"sql", "sql_options"})
            => inv[p].key = KeyOf(inv[p], WithEmptyParams(inv[p].call))

\* The bind parameters of a call: the empty list when none are passed.
Params(call) ==
    IF call.form \in {"sql_values", "sql_values_options"}
    THEN call.values ELSE <<>>

\* The key layout: the resolved prefix, followed by the caller's literal
\* key when supplied, else by the hash of sql + serialized params under
\* the resolved hash type.
LayoutKey(call) ==
    Resolved(call, "keyPrefix")
    \o (IF Supplied(call).hash # Undefined THEN Supplied(call).hash[1]
        ELSE hash(call.sql \o "[" \o JoinNums(Params(call)) \o "]",
                  Resolved(call, "hashType")))

\* C13: every get and set of an invocation, and the marker it delivers,
\* carry the key of the layout.
C13_KeyLayout ==
    \A p \in Procs :
        Started(p) =>
            /\ \A i \in 1..Len(RedisOps(inv[p])) :
                  RedisOps(inv[p])[i].key = LayoutKey(inv[p].call)
            /\ \A i \in 1..Len(inv[p].out) :
                  inv[p].out[i].fields.kind = "marker"
                      => inv[p].out[i].fields.key = LayoutKey(inv[p].call)

C15_OperationBound ==
    \A p \in Procs :
        Started(p) =>
            /\ inv[p].ops[1].op = "query"
            /\ Len(RedisOps(inv[p])) <= 1
            /\ \A i \in 1..Len(RedisOps(inv[p])) :
                  RedisOps(inv[p])[i].op # "query"

\* The payload and metadata of a result were obtained from a successful
\* cache read of the invocation.
FromCacheRead(rec) ==
    \E i \in 1..Len(rec.replies) :
        /\ RedisOps(rec)[i].op = "get"
        /\ RedisOps(rec)[i].key = rec.key
        /\ rec.replies[i].ok
        /\ Outcome(rec).data = ParseReply(rec.replies[i].value)
        /\ Outcome(rec).fields = CacheHit(rec.key)

\* The payload and metadata of a result are those the primary store
\* returned.
FromPrimary(rec) ==
    /\ rec.mysql.status = "ok"
    /\ Outcome(rec).data = rec.mysql.result
    /\ Outcome(rec).fields = rec.mysql.fields

\* C16: a delivered result carries the cacheHit marker exactly when its
\* payload was read from the cache, and the primary store's field metadata
\* exactly when its payload is the primary store's result.
C16_MarkerInvariant ==
    \A p \in Procs :
        (Len(inv[p].out) >= 1 /\ Outcome(inv[p]).err = "null") =>
            IF Outcome(inv[p]).fields.kind = "marker"
            THEN FromCacheRead(inv[p])
            ELSE FromPrimary(inv[p])

C16_Witness ==
    \E p \in Procs :
        /\ Done(p) /\ Outcome(inv[p]).err = "null"
        /\ Outcome(inv[p]).fields.kind = "marker"
        /\ Outcome(inv[p]).data # Null
        /\ inv[p].mysql.status = "err"

\* The text an invocation hashes: sql + JSON.stringify(values).
Payload(rec) ==
    rec.call.sql \o StringifyArg(IF rec.adapter = "cb"
                                 THEN CbArgs(rec.call).values
                                 ELSE AsyncArgs(rec.call).values)

\* The strategy each hash type names: the 32-bit fingerprint for
\* farmhash32 and for an unrecognized type, the 64-bit one for farmhash64.
StrategyOf(payload, hashType) ==
    CASE hashType = HashTypes.farmhash64 -> toString64(fingerprint64(payload))
      [] hashType = HashTypes.blake2b512 -> blake2b512(payload)
      [] hashType = HashTypes.full -> payload
      [] OTHER -> toString64(fingerprint32(payload))

\* A hash type that is none of the four.
UnknownHashType == HashTypes.full + 1

\* C17: hash applies to the payload of an invocation the strategy its hash
\* type names, whichever hash type is selected.
C17_HashStrategy ==
    \A p \in Procs :
        Started(p) =>
            /\ \A t \in {HashTypes.farmhash32, HashTypes.farmhash64,
                         HashTypes.blake2b512, HashTypes.full,
                         UnknownHashType} :
                  hash(Payload(inv[p]), t) = StrategyOf(Payload(inv[p]), t)
            /\ Supplied(inv[p].call).hash = Undefined =>
                  inv[p].key = inv[p].prefix
                                 \o StrategyOf(Payload(inv[p]), inv[p].hashType)

\* The entry at key k is new or differs from the one held before the step.
Written(k) == k \notin DOMAIN redis \/ redis'[k] # redis[k]

\* C18: an invocation whose primary query failed issues no set, and every
\* entry a step writes is the serialized result of an invocation on that
\* key whose primary query succeeded and whose mode is not SKIP.
C18_FailedPrimaryFrame ==
    [][/\ \A p \in Procs :
             inv'[p].mysql.status = "err" => ~Issued(inv'[p], "set")
       /\ \A k \in DOMAIN redis' :
             Written(k) =>
                 \E p \in Procs :
                     /\ inv[p].mysql.status = "ok"
                     /\ ~IsSkip(inv[p])
                     /\ Resolved(inv[p].call, "caching") # Caching.SKIP
                     /\ inv[p].key = k
                     /\ Issued(inv[p], "set")
                     /\ redis'[k].value = JSONstringify(inv[p].mysql.result)
      ]_vars

C18_Witness ==
    \E p \in Procs :
        /\ Done(p) /\ inv[p].mysql.status = "err"
        /\ inv[p].key \in DOMAIN redis
        /\ ~Issued(inv[p], "set")

\* The results the primary store has returned to invocations on key k.
Produced(k) ==
    { inv[q].mysql.result :
        q \in { r \in Procs : /\ Started(r) /\ inv[r].key = k
                              /\ inv[r].mysql.status = "ok" } }

\* The values successful cache reads have returned to invocation p.
ValuesRead(p) ==
    { inv[p].replies[i].value[1] :
        i \in { j \in 1..Len(inv[p].replies) :
                  /\ RedisOps(inv[p])[j].op = "get"
                  /\ inv[p].replies[j].ok
                  /\ inv[p].replies[j].value # Undefined } }

\* Every entry of the cache store is the serialization of a result the
\* primary store returned to an invocation on its key.
StoreHoldsProduced ==
    \A k \in DOMAIN redis :
        \E r \in Produced(k) : redis[k].value = JSONstringify(r)

\* C19 (as stated): under every interleaving the entry of a key is absent or
\* the serialization of a result the primary store returned for that key,
\* and the payload parsed from a cache read is such a result.
C19_LastWriteWins ==
    /\ StoreHoldsProduced
    /\ \A p \in Procs : \A v \in ValuesRead(p) :
          JSONparse(v) \in Produced(inv[p].key)

\* C19 (amended): the payload parsed from a cache read is the JSON round
\* trip of such a result.
C19_LastWriteWinsJSON ==
    /\ StoreHoldsProduced
    /\ \A p \in Procs : \A v \in ValuesRead(p) :
          JSONparse(v) \in { AsJSON(r) : r \in Produced(inv[p].key) }

\* Two invocations on one key have both written it, and a third party's
\* read, or their own, has returned a value.
C19_Witness ==
    \E p, q \in Procs :
        /\ p # q /\ inv[p].key = inv[q].key
        /\ Issued(inv[p], "set") /\ Issued(inv[q], "set")
        /\ inv[p].mysql.result # inv[q].mysql.result
        /\ inv[p].key \in DOMAIN redis
        /\ \E r \in Procs : ValuesRead(r) # {}

\* C20: when the stores answer every operation, every invocation delivers
\* an outcome to its caller: the handler is called, or the promise settled.
C20_EventuallyDelivers ==
    \A p \in Procs : InFlight(p) ~> (Len(inv[p].out) >= 1)

\* An invocation that went through three cache operations has delivered.
C20_Witness ==
    \E p \in Procs :
        /\ Done(p) /\ Len(inv[p].out) >= 1
        /\ Len(RedisOps(inv[p])) = 3

====
